---- MODULE Spec2Model ----
(***************************************************************************)
(* Model of src/etl_job.py: the incremental, checkpointed, batched         *)
(* replication pipeline PostgreSQL -> ClickHouse (execute_etl_pipeline and *)
(* the functions it calls).                                                *)
(*                                                                         *)
(* Timestamps are the integers 1..MaxTs; 0 stands for SQL NULL / Python    *)
(* None in the updated_at column.  A Python value that is either None, a   *)
(* str or a datetime is a record [k, v] with k in {"none","str","dt"}.     *)
(* The checkpoint file is a record [k, v] with k in                        *)
(* {"absent","corrupt","str"}: missing, not parseable as JSON (truncated), *)
(* or {"last_updated_at": "<text of v>"}; a file the pipeline did not      *)
(* write may also be "unreadable" (open raises IOError), "nokey" (a JSON   *)
(* object without last_updated_at) or "notobject" (JSON that is a list, a  *)
(* number, a string or null).                                              *)
(***************************************************************************)
EXTENDS Integers, Sequences, FiniteSets, Bags, TLC

\* ---- bounds of the model --------------------------------------------------
MaxRecs == 3        \* rows the source table may hold
MaxTs == 2          \* largest timestamp
MaxRuns == 2        \* invocations of execute_etl_pipeline
MaxFaults == 1      \* failures of connections, loads and file writes

\* DEFAULT_BATCH_SIZE = 5000 in the source, scaled down.
DEFAULT_BATCH_SIZE == 2

VARIABLES
    source,             \* retail_transaction in PostgreSQL: sequence of rows, index = id
    srcChanged,         \* the source was modified since the previous run ended
    fresh,              \* rows inserted since the previous run ended
    faults,             \* failures of the environment so far
    wmFile,             \* etl_watermark.json
    sink,               \* retail_transaction in ClickHouse: bag of inserted rows
    pc,                 \* position of the orchestrator
    runs,               \* number of runs started
    last_watermark,     \* execute_etl_pipeline local
    current_watermark,  \* execute_etl_pipeline local
    remaining,          \* rows of the cursor's result set not fetched yet
    batch_buffer,       \* execute_etl_pipeline local
    loads,              \* batches accepted by ch_client.insert in this run
    wmWrites,           \* calls of save_current_watermark in this run
    pgOpen,             \* pg_connection is open
    chOpen,             \* ch_client is open
    error,              \* the exception that ended the run ("none": none)
    startFile,          \* wmFile when this run started
    startSink,          \* sink when this run started
    prev,               \* summary of the previous run
    saved               \* the values written to the checkpoint so far

vars == <<source, srcChanged, fresh, faults, wmFile, sink, pc, runs, last_watermark,
          current_watermark, remaining, batch_buffer, loads, wmWrites,
          pgOpen, chOpen, error, startFile, startSink, prev, saved>>

\* ---- values ---------------------------------------------------------------
None == [k |-> "none", v |-> 0]
Dt(t) == [k |-> "dt", v |-> t]
Text(t) == [k |-> "str", v |-> t]
Absent == [k |-> "absent", v |-> 0]
Corrupt == [k |-> "corrupt", v |-> 0]
Unreadable == [k |-> "unreadable", v |-> 0]
NoKey == [k |-> "nokey", v |-> 0]
NotObject == [k |-> "notobject", v |-> 0]

\* Python truthiness of a watermark value: None is falsy, a datetime and the
\* non-empty text of a datetime are truthy.
Truthy(w) == w.k # "none"

\* str(x): a datetime becomes its text, a str stays itself.
Str(w) == Text(w.v)

\* the timestamp PostgreSQL reads from the query parameter
ParseTs(w) == w.v

Max2(a, b) == IF a >= b THEN a ELSE b

SetMax(S) == IF S = {} THEN 0 ELSE CHOOSE t \in S : \A u \in S : u <= t

RECURSIVE Flatten(_)
Flatten(ss) == IF ss = <<>> THEN <<>> ELSE Head(ss) \o Flatten(Tail(ss))

RECURSIVE SeqToBag(_)
SeqToBag(s) == IF s = <<>> THEN EmptyBag ELSE SetToBag({Head(s)}) (+) SeqToBag(Tail(s))

Range(s) == {s[i] : i \in DOMAIN s}

\* ---- watermark store ------------------------------------------------------
\* load_last_watermark raises: watermark_data.get on a value that is not a
\* dict is an AttributeError, which line 163 does not catch
LoadRaises(file) == file.k = "notobject"

\* load_last_watermark
LoadLastWatermark(file) ==
    IF file.k = "str" THEN Text(file.v) ELSE None

\* save_current_watermark: the outcomes of open(..., "w") + json.dump.
\* "ok": the file holds the new value.  "openfail": open raised IOError, the
\* file is untouched.  "writefail": open truncated the file and the write or
\* close raised IOError.  Both errors are logged and swallowed.
SaveFailures == {"openfail", "writefail"}

SaveCurrentWatermark(file, timestamp_value, outcome) ==
    CASE outcome = "ok" -> timestamp_value
      [] outcome = "openfail" -> file
      [] OTHER -> Corrupt

\* ---- change extractor -----------------------------------------------------
\* variant: the first full load without the deleted_at filter
EligibleAllOnFullLoad(src, wm) ==
    IF Truthy(wm)
    THEN {r \in Range(src) : r.ts # 0 /\ r.ts > ParseTs(wm) /\ r.del}
    ELSE Range(src)

\* variant: updated_at >= %s in the incremental query
EligibleInclusive(src, wm) ==
    IF Truthy(wm)
    THEN {r \in Range(src) : r.ts # 0 /\ r.ts >= ParseTs(wm) /\ r.del}
    ELSE {r \in Range(src) : r.del}

\* the WHERE clause of the two queries of fetch_postgres_data
Eligible(src, wm) ==
    IF Truthy(wm)
    THEN {r \in Range(src) : r.ts # 0 /\ r.ts > ParseTs(wm) /\ r.del}
    ELSE {r \in Range(src) : r.del}

\* ORDER BY updated_at: ascending, NULLs last, ties in any order
SortKey(r) == IF r.ts = 0 THEN MaxTs + 1 ELSE r.ts

RECURSIVE OrderBy(_)
OrderBy(S) ==
    IF S = {} THEN {<<>>}
    ELSE LET first == {r \in S : \A q \in S : SortKey(r) <= SortKey(q)}
         IN UNION {{<<r>> \o s : s \in OrderBy(S \ {r})} : r \in first}

\* cursor.fetchmany(n): the pages the cursor may return when the rows in rem
\* are still to come
FetchMany(rem, n) ==
    {SubSeq(s, 1, IF n <= Len(s) THEN n ELSE Len(s)) : s \in OrderBy(rem)}

\* cursor.fetchmany(n) of a cursor that returns fewer than n rows although
\* more are to come (the DB-API lets fetchmany return fewer rows than asked
\* for): any page of 1 to n rows
FetchManyShort(rem, n) ==
    UNION {{SubSeq(s, 1, k) : k \in 1 .. (IF n <= Len(s) THEN n ELSE Len(s))} :
              s \in OrderBy(rem)}

\* ---- sink -----------------------------------------------------------------
\* variant: a plain MergeTree, every inserted copy stays visible
SinkVisibleNoMerge(s) ==
    {<<r, CopiesIn(r, s)>> : r \in BagToSet(s)}

\* ReplacingMergeTree(updated_at) ORDER BY (id): of the rows with one id the
\* one with the greatest updated_at is kept.
SinkVisible(s) ==
    {r \in BagToSet(s) : \A q \in BagToSet(s) : q.id = r.id => q.ts <= r.ts}

\* insert_to_clickhouse on success: without rows it returns at line 130,
\* with rows ch_client.insert adds them to the table
InsertToClickhouse(s, data_rows) ==
    IF data_rows = <<>> THEN s ELSE s (+) SeqToBag(data_rows)

\* ---- batch accumulator ----------------------------------------------------
\* max(row[6] for row in batch_data if row[6]): the updated_at values the
\* maximum is taken of
Stamps(batch_data) == {batch_data[i].ts : i \in DOMAIN batch_data} \ {0}

\* datetime > current_watermark is defined for a datetime only
Comparable(cw) == cw.k = "dt"

\* variant: the comparison of the ratchet is reversed
RatchetReversed(cw, batch_max_ts) ==
    IF ~Truthy(cw) \/ batch_max_ts.v < cw.v THEN batch_max_ts ELSE cw

\* lines 212-213: the candidate after a page whose maximum is batch_max_ts
Ratchet(cw, batch_max_ts) ==
    IF ~Truthy(cw) \/ batch_max_ts.v > cw.v THEN batch_max_ts ELSE cw

\* ---- environment ----------------------------------------------------------
NoRun == [wm |-> None, outcome |-> "IDLE", rows |-> {}]

Init ==
    /\ source = <<>>
    /\ srcChanged = FALSE
    /\ fresh = 0
    /\ faults = 0
    /\ wmFile = Absent
    /\ sink = EmptyBag
    /\ pc = "IDLE"
    /\ runs = 0
    /\ last_watermark = None
    /\ current_watermark = None
    /\ remaining = {}
    /\ batch_buffer = <<>>
    /\ loads = <<>>
    /\ wmWrites = 0
    /\ pgOpen = FALSE
    /\ chOpen = FALSE
    /\ error = "none"
    /\ startFile = Absent
    /\ startSink = EmptyBag
    /\ prev = NoRun
    /\ saved = {}

\* the rows the application may insert: a row that is not soft-deleted
\* carries the earliest timestamp (its updated_at is never read before it is
\* soft-deleted), a soft-deleted row any timestamp or NULL
NewRows ==
    {[ts |-> 1, del |-> FALSE]} \cup {[ts |-> t, del |-> TRUE] : t \in 0 .. MaxTs}

\* rows inserted between the same two runs are numbered in this order (their
\* numbering is arbitrary)
RowKey(r) == IF r.del THEN r.ts + 1 ELSE 0

\* the application inserts a row into the source table; updated_at may be
\* NULL and need not be later than that of the rows already there
SourceInsert ==
    /\ pc = "IDLE" /\ runs < MaxRuns
    /\ Len(source) < MaxRecs
    /\ \E r \in NewRows :
          /\ fresh > 0 => RowKey(source[Len(source)]) <= RowKey(r)
          /\ source' = Append(source, [id |-> Len(source) + 1, ts |-> r.ts, del |-> r.del])
    /\ fresh' = fresh + 1
    /\ srcChanged' = TRUE
    /\ UNCHANGED <<faults, wmFile, sink, pc, runs, last_watermark,
                   current_watermark, remaining, batch_buffer, loads, wmWrites,
                   pgOpen, chOpen, error, startFile, startSink, prev, saved>>

\* the application changes a soft-deleted row of which the sink holds a
\* version and stamps it with the time of the change, the latest instant; a
\* row it never stamped stays without updated_at
SourceTouch ==
    /\ pc = "IDLE" /\ runs < MaxRuns
    /\ \E i \in 1 .. (Len(source) - fresh) :
          /\ source[i].del /\ source[i].ts # 0 /\ source[i].ts < MaxTs
          /\ \E q \in BagToSet(sink) : q.id = i
          /\ source' = [source EXCEPT ![i] = [id |-> i, ts |-> MaxTs, del |-> TRUE]]
    /\ srcChanged' = TRUE
    /\ UNCHANGED <<fresh, faults, wmFile, sink, pc, runs, last_watermark,
                   current_watermark, remaining, batch_buffer, loads, wmWrites,
                   pgOpen, chOpen, error, startFile, startSink, prev, saved>>

\* etl_watermark.json, a file in the working directory, is removed between
\* two runs
CheckpointLost ==
    /\ pc = "IDLE" /\ runs < MaxRuns
    /\ wmFile # Absent
    /\ wmFile' = Absent
    /\ UNCHANGED <<source, srcChanged, fresh, faults, sink, pc, runs,
                   last_watermark,
                   current_watermark, remaining, batch_buffer, loads,
                   wmWrites, pgOpen, chOpen, error, startFile, startSink,
                   prev, saved>>

\* ---- orchestrator ---------------------------------------------------------
\* variant: the error is logged and not re-raised
AbortSwallowed(e) ==
    /\ pc' = "STREAMING"
    /\ pgOpen' = pgOpen
    /\ error' = e
    /\ UNCHANGED <<wmFile, saved, wmWrites>>

\* variant: the handler saves the candidate watermark before re-raising
AbortSavingCandidate(e) ==
    /\ pc' = "FAILED"
    /\ pgOpen' = FALSE
    /\ error' = e
    /\ wmFile' = IF Truthy(current_watermark') THEN Str(current_watermark')
                 ELSE wmFile
    /\ UNCHANGED <<saved, wmWrites>>

\* the except/finally of execute_etl_pipeline: the error is logged and
\* re-raised, pg_connection is closed; the checkpoint is not touched
Abort(e) ==
    /\ pc' = "FAILED"
    /\ pgOpen' = FALSE
    /\ error' = e
    /\ UNCHANGED <<wmFile, saved, wmWrites>>

\* a connection, a load or a file write fails
Fault ==
    /\ faults < MaxFaults
    /\ faults' = faults + 1

\* connect_to_postgres, connect_to_clickhouse, setup_clickhouse_table and
\* cursor.execute may raise
StartFailures == {"pgfail", "chfail", "ddlfail", "queryfail"}

\* lines 184-207 and 95-114: load the watermark, connect, set up the table,
\* open the cursor and run the query
StartRun ==
    /\ pc = "IDLE" /\ runs < MaxRuns
    /\ runs' = runs + 1
    /\ startFile' = wmFile
    /\ startSink' = sink
    /\ last_watermark' = LoadLastWatermark(wmFile)
    /\ current_watermark' = last_watermark'
    /\ IF LoadRaises(wmFile)
       THEN \* line 192 raises before a connection is made
            /\ Abort("AttributeError")
            /\ UNCHANGED <<chOpen, remaining, faults>>
       ELSE \/ /\ pc' = "STREAMING"
               /\ pgOpen' = TRUE
               /\ chOpen' = TRUE
               /\ remaining' = Eligible(source, last_watermark')
               /\ UNCHANGED <<error, wmFile, saved, wmWrites, faults>>
            \/ /\ Fault
               /\ \E o \in StartFailures : chOpen' = (o \in {"ddlfail", "queryfail"})
               /\ Abort("ConnectionError")
               /\ UNCHANGED remaining
    /\ fresh' = 0
    /\ UNCHANGED <<source, srcChanged, sink, batch_buffer, loads, prev>>

\* lines 208-219 for one page: extend the buffer, ratchet the candidate
\* watermark, and flush the buffer when it has reached the batch size
HandlePage(batch_data) ==
    LET buffer == batch_buffer \o batch_data
        stamps == Stamps(batch_data)
    IN /\ remaining' = remaining \ Range(batch_data)
       /\ IF stamps = {}
          THEN \* max() of an empty sequence: ValueError
               /\ batch_buffer' = buffer
               /\ UNCHANGED <<current_watermark, sink, loads, faults>>
               /\ Abort("ValueError")
          ELSE IF Truthy(current_watermark) /\ ~Comparable(current_watermark)
          THEN \* datetime > str: TypeError
               /\ batch_buffer' = buffer
               /\ UNCHANGED <<current_watermark, sink, loads, faults>>
               /\ Abort("TypeError")
          ELSE /\ current_watermark' =
                     Ratchet(current_watermark, Dt(SetMax(stamps)))
               /\ IF Len(buffer) >= DEFAULT_BATCH_SIZE
                  THEN \/ /\ sink' = InsertToClickhouse(sink, buffer)
                          /\ loads' = Append(loads, buffer)
                          /\ batch_buffer' = <<>>
                          /\ UNCHANGED <<pc, pgOpen, error, wmFile,
                                         saved, wmWrites, faults>>
                       \/ \* ch_client.insert raises
                          /\ Fault
                          /\ batch_buffer' = buffer
                          /\ UNCHANGED <<sink, loads>>
                          /\ Abort("InsertError")
                  ELSE /\ batch_buffer' = buffer
                       /\ UNCHANGED <<sink, loads, pc, pgOpen, error,
                                      wmFile, saved, wmWrites, faults>>

\* one iteration of the loop, lines 116-120 and 207-219: fetch a page and
\* handle it
ProcessPage ==
    /\ pc = "STREAMING" /\ remaining # {}
    /\ \/ \* cursor.fetchmany raises
          /\ Fault
          /\ UNCHANGED <<remaining, batch_buffer, current_watermark, sink, loads>>
          /\ Abort("ConnectionError")
       \/ \E batch_data \in FetchMany(remaining, DEFAULT_BATCH_SIZE) :
             HandlePage(batch_data)
    /\ UNCHANGED <<source, srcChanged, fresh, runs, last_watermark, chOpen,
                   startFile, startSink, prev>>

\* one iteration of the loop over a cursor that may return a short page
ProcessShortPage ==
    /\ pc = "STREAMING" /\ remaining # {}
    /\ \E batch_data \in FetchManyShort(remaining, DEFAULT_BATCH_SIZE) :
          HandlePage(batch_data)
    /\ UNCHANGED <<source, srcChanged, fresh, runs, last_watermark, chOpen,
                   startFile, startSink, prev>>

\* variant: insert_to_clickhouse is called after the loop whether the buffer
\* holds rows or not, and hands what it gets to ch_client.insert
FlushRemainderUnguarded ==
    /\ pc = "STREAMING" /\ remaining = {}
    /\ UNCHANGED <<source, srcChanged, fresh, runs, last_watermark,
                   current_watermark, remaining, batch_buffer, chOpen,
                   startFile, startSink, prev>>
    /\ \/ /\ sink' = InsertToClickhouse(sink, batch_buffer)
          /\ loads' = Append(loads, batch_buffer)
          /\ pc' = "FINALIZING"
          /\ UNCHANGED <<pgOpen, error, wmFile, saved, wmWrites, faults>>
       \/ /\ Fault
          /\ Abort("InsertError")
          /\ UNCHANGED <<sink, loads>>

\* variant: what is left in the buffer after the loop is not loaded
FlushRemainderSkipped ==
    /\ pc = "STREAMING" /\ remaining = {}
    /\ pc' = "FINALIZING"
    /\ UNCHANGED <<source, srcChanged, fresh, faults, wmFile, sink, runs,
                   last_watermark, current_watermark, remaining, batch_buffer,
                   loads, wmWrites, pgOpen, chOpen, error, startFile,
                   startSink, prev, saved>>

\* the cursor is exhausted, lines 116-122 and 221-224: the loop ends and what
\* is left in the buffer is flushed
FlushRemainder ==
    /\ pc = "STREAMING" /\ remaining = {}
    /\ UNCHANGED <<source, srcChanged, fresh, runs, last_watermark,
                   current_watermark, remaining, batch_buffer, chOpen,
                   startFile, startSink, prev>>
    /\ \/ \* the last cursor.fetchmany raises
          /\ Fault
          /\ Abort("ConnectionError")
          /\ UNCHANGED <<sink, loads>>
       \/ /\ batch_buffer # <<>>
          /\ \/ /\ sink' = InsertToClickhouse(sink, batch_buffer)
                /\ loads' = Append(loads, batch_buffer)
                /\ pc' = "FINALIZING"
                /\ UNCHANGED <<pgOpen, error, wmFile, saved, wmWrites, faults>>
             \/ \* ch_client.insert raises
                /\ Fault
                /\ Abort("InsertError")
                /\ UNCHANGED <<sink, loads>>
       \/ /\ batch_buffer = <<>>
          /\ pc' = "FINALIZING"
          /\ UNCHANGED <<sink, loads, pgOpen, error, wmFile, saved, wmWrites,
                         faults>>

\* variant: the watermark is saved before the remainder is flushed, and the
\* flush is left out
SaveWatermarkBeforeRemainder ==
    /\ pc \in {"STREAMING", "FINALIZING"} /\ remaining = {}
    /\ IF Truthy(current_watermark)
       THEN /\ wmWrites' = wmWrites + 1
            /\ wmFile' = SaveCurrentWatermark(wmFile, Str(current_watermark), "ok")
            /\ saved' = saved \cup {current_watermark.v}
       ELSE UNCHANGED <<wmFile, saved, wmWrites>>
    /\ UNCHANGED faults
    /\ pc' = "DONE"
    /\ pgOpen' = FALSE
    /\ UNCHANGED <<source, srcChanged, fresh, sink, runs, last_watermark,
                   current_watermark, remaining, batch_buffer, loads, chOpen,
                   error, startFile, startSink, prev>>

\* variant: the candidate watermark is saved whether there is one or not
SaveWatermarkUnconditional ==
    /\ pc = "FINALIZING"
    /\ wmWrites' = wmWrites + 1
    /\ wmFile' = SaveCurrentWatermark(wmFile, Str(current_watermark), "ok")
    /\ saved' = saved \cup {current_watermark.v}
    /\ UNCHANGED faults
    /\ pc' = "DONE"
    /\ pgOpen' = FALSE
    /\ UNCHANGED <<source, srcChanged, fresh, sink, runs, last_watermark,
                   current_watermark, remaining, batch_buffer, loads, chOpen,
                   error, startFile, startSink, prev>>

\* lines 226-244: save the watermark if there is one, log completion, close
\* the PostgreSQL connection
SaveWatermark ==
    /\ pc = "FINALIZING"
    /\ IF Truthy(current_watermark)
       THEN /\ wmWrites' = wmWrites + 1
            /\ \/ /\ wmFile' = SaveCurrentWatermark(wmFile, Str(current_watermark), "ok")
                  /\ saved' = saved \cup {current_watermark.v}
                  /\ UNCHANGED faults
               \/ /\ Fault
                  /\ \E o \in SaveFailures :
                        wmFile' = SaveCurrentWatermark(wmFile, Str(current_watermark), o)
                  /\ UNCHANGED saved
       ELSE UNCHANGED <<wmFile, saved, wmWrites, faults>>
    /\ pc' = "DONE"
    /\ pgOpen' = FALSE
    /\ UNCHANGED <<source, srcChanged, fresh, sink, runs, last_watermark,
                   current_watermark, remaining, batch_buffer, loads, chOpen,
                   error, startFile, startSink, prev>>

\* execute_etl_pipeline has returned or raised and the process exits: its
\* locals and connections are gone
Exit ==
    /\ pc \in {"DONE", "FAILED"} /\ runs < MaxRuns
    /\ prev' = [wm |-> last_watermark, outcome |-> pc,
                rows |-> Range(Flatten(loads))]
    /\ pc' = "IDLE"
    /\ srcChanged' = FALSE
    /\ last_watermark' = None
    /\ current_watermark' = None
    /\ remaining' = {}
    /\ batch_buffer' = <<>>
    /\ loads' = <<>>
    /\ wmWrites' = 0
    /\ pgOpen' = FALSE
    /\ chOpen' = FALSE
    /\ error' = "none"
    /\ startFile' = wmFile
    /\ startSink' = sink
    /\ UNCHANGED <<source, fresh, faults, wmFile, sink, runs, saved>>

\* the pipeline, run again and again over a source that grows and changes
Next ==
    \/ SourceInsert
    \/ SourceTouch
    \/ StartRun
    \/ ProcessPage
    \/ FlushRemainder
    \/ SaveWatermark
    \/ Exit

Spec == Init /\ [][Next]_vars

\* the pipeline, run again and again over a source that grows, with a
\* checkpoint file that can disappear between two runs
NextLost ==
    \/ SourceInsert
    \/ CheckpointLost
    \/ StartRun
    \/ ProcessPage
    \/ FlushRemainder
    \/ SaveWatermark
    \/ Exit

SpecLost == Init /\ [][NextLost]_vars

\* what etl_watermark.json may hold when the pipeline finds it
FileStates ==
    {Absent, Corrupt, Unreadable, NoKey, NotObject} \cup {Text(t) : t \in 1 .. MaxTs}

\* the pipeline started in a working directory that holds any such file
InitFiles ==
    /\ wmFile \in FileStates
    /\ startFile = wmFile
    /\ source = <<>>
    /\ srcChanged = FALSE
    /\ fresh = 0
    /\ faults = 0
    /\ sink = EmptyBag
    /\ pc = "IDLE"
    /\ runs = 0
    /\ last_watermark = None
    /\ current_watermark = None
    /\ remaining = {}
    /\ batch_buffer = <<>>
    /\ loads = <<>>
    /\ wmWrites = 0
    /\ pgOpen = FALSE
    /\ chOpen = FALSE
    /\ error = "none"
    /\ startSink = EmptyBag
    /\ prev = NoRun
    /\ saved = {}

SpecFiles == InitFiles /\ [][Next]_vars

\* the pipeline over a cursor whose pages may be short
NextPages ==
    \/ SourceInsert
    \/ StartRun
    \/ ProcessShortPage
    \/ FlushRemainder
    \/ SaveWatermark
    \/ Exit

SpecPages == Init /\ [][NextPages]_vars

\* ---- properties -----------------------------------------------------------
\* the rows accepted by the sink in this run, in the order of delivery
Delivered == Flatten(loads)

\* the result set of this run's query
ResultSet == Eligible(source, last_watermark)

\* the run has ended
Ended == pc \in {"DONE", "FAILED"}

\* exceptions that come from the environment and not from the pipeline's code
EnvErrors == {"ConnectionError", "InsertError"}

\* C1: in every run the checkpoint is written at most once, and whenever the
\* run has written it or changed it, the cursor is exhausted and every row of
\* the run's result set has been accepted by the sink, exactly once.
C1_WatermarkAfterAllLoads ==
    /\ wmWrites <= 1
    /\ (pc # "IDLE" /\ (wmWrites > 0 \/ wmFile # startFile)) =>
          /\ pc = "DONE"
          /\ remaining = {}
          /\ Range(Delivered) = ResultSet
          /\ Len(Delivered) = Cardinality(ResultSet)
          /\ \A r \in ResultSet : BagIn(r, sink)

\* a run of two or more loads that has then changed the checkpoint
C1_Witness ==
    /\ pc = "DONE" /\ wmWrites = 1 /\ wmFile # startFile
    /\ Len(loads) >= 2

\* a step in which ch_client.insert was called and rejected the batch
LoadFailedStep ==
    /\ pc = "STREAMING"
    /\ error = "none" /\ error' = "InsertError"

\* C2: a failing sink load aborts the run: the step leaves the sink and the
\* checkpoint as they are, the checkpoint is the one of the run's start, the
\* sink holds what it held at the start plus the batches accepted before, and
\* from FAILED nothing but the exit of the process follows.
C2_LoadFailureAborts ==
    [][ /\ LoadFailedStep =>
              /\ pc' = "FAILED"
              /\ loads' = loads
              /\ sink' = sink
              /\ wmFile' = startFile
              /\ sink' = startSink (+) SeqToBag(Delivered)
        /\ pc = "FAILED" =>
              /\ pc' = "IDLE"
              /\ sink' = sink
              /\ wmFile' = wmFile ]_vars

\* a run that ended on a rejected batch after the sink had accepted another
C2_Witness ==
    /\ pc = "FAILED" /\ error = "InsertError"
    /\ Len(loads) >= 1
    /\ wmFile = startFile

\* C3: a run whose checkpoint write failed does not end in DONE.
C3_SaveFailureIsFatal ==
    ~(pc = "DONE" /\ wmWrites > 0 /\ wmFile # Str(current_watermark))

\* C4: a run whose query returned no row does not call the checkpoint store
\* and leaves the file as it was.
C4_EmptyRunWritesNothing ==
    (pc = "DONE" /\ ResultSet = {}) => (wmWrites = 0 /\ wmFile = startFile)

\* C5: when the previous run failed after the sink had accepted a batch and
\* the source is unchanged, a run that completes started from the watermark
\* the failed run started from, has delivered again every row the failed run
\* delivered, and leaves the sink showing what one uninterrupted run from the
\* failed run's start would have left (the sink at the failed run's start is
\* the sink at this run's start without the rows the failed run delivered).
C5_CrashSafety ==
    (pc = "DONE" /\ prev.outcome = "FAILED" /\ prev.rows # {} /\ ~srcChanged) =>
        /\ last_watermark = prev.wm
        /\ prev.rows \subseteq Range(Delivered)
        /\ SinkVisible(sink) =
             SinkVisible((startSink (-) SetToBag(prev.rows))
                         (+) SetToBag(Eligible(source, prev.wm)))

\* a completed rerun after a run that failed with a batch already loaded
C5_Witness ==
    /\ pc = "DONE" /\ prev.outcome = "FAILED" /\ prev.rows # {} /\ ~srcChanged
    /\ Len(loads) >= 2

\* C6: the value in the checkpoint file is never smaller than a value that
\* was stored in it before.
C6_MonotonicCheckpoint ==
    wmFile.k = "str" => \A v \in saved : v <= wmFile.v

\* a run has written a value other than the one an earlier run had written
C6_Witness ==
    /\ pc = "DONE" /\ wmWrites = 1 /\ wmFile.k = "str"
    /\ Cardinality(saved) >= 2

\* the sizes of the loads of N rows in batches of B
ExpectedSizes(N, B) ==
    [i \in 1 .. ((N + B - 1) \div B) |-> IF i * B <= N THEN B ELSE N % B]

\* C7: a run with a prior checkpoint and N >= 1 rows newer than it, in which
\* no connection, load or checkpoint write fails, makes ceil(N/B) loads of sizes B, ..., B,
\* N mod B and ends with the checkpoint at the greatest updated_at of the rows.
C7_BatchesAndFinalCheckpoint ==
    (/\ Ended /\ Truthy(last_watermark) /\ ResultSet # {}
     /\ error \notin EnvErrors
     /\ wmWrites > 0 => wmFile = Str(current_watermark)) =>
        /\ pc = "DONE"
        /\ [i \in DOMAIN loads |-> Len(loads[i])] =
              ExpectedSizes(Cardinality(ResultSet), DEFAULT_BATCH_SIZE)
        /\ wmFile = Text(SetMax({r.ts : r \in ResultSet}))

\* updated_at lies in (last_watermark, the saved watermark]
InWindow(t) ==
    /\ Truthy(last_watermark) => t > ParseTs(last_watermark)
    /\ t <= wmFile.v

\* C8: after a completed run that saved its watermark, over a source without
\* NULL updated_at, the rows visible in the sink with updated_at in the window
\* are the soft-deleted source rows with updated_at in the window.
C8_Completeness ==
    (/\ pc = "DONE" /\ wmFile.k = "str" /\ wmWrites = 1
     /\ \A r \in Range(source) : r.ts # 0) =>
        {r \in SinkVisible(sink) : InWindow(r.ts)} =
        {r \in Range(source) : r.del /\ InWindow(r.ts)}

\* a completed full load over a sink that already held an older version
C8_Witness ==
    /\ pc = "DONE" /\ wmFile.k = "str" /\ wmWrites = 1
    /\ \A r \in Range(source) : r.ts # 0
    /\ Len(loads) >= 1
    /\ SinkVisible(sink) # BagToSet(sink)
    /\ \E r \in Range(source) : ~r.del

\* C9: a run whose result set holds a row with NULL updated_at, in which the
\* environment does not fail, completes, has delivered every other row and
\* has not delivered the NULL row.
C9_MalformedRowSkipped ==
    (/\ Ended /\ error \notin EnvErrors
     /\ \E r \in ResultSet : r.ts = 0) =>
        /\ pc = "DONE"
        /\ \A r \in ResultSet : (r.ts # 0) <=> (r \in Range(Delivered))

\* C10: a completed run that follows a completed run from the same watermark
\* over the unchanged source leaves the sink showing what it showed before.
C10_IdempotentReplay ==
    (/\ pc = "DONE" /\ prev.outcome = "DONE" /\ ~srcChanged
     /\ last_watermark = prev.wm) =>
        SinkVisible(sink) = SinkVisible(startSink)

\* the second of two completed runs from one watermark has delivered rows
C10_Witness ==
    /\ pc = "DONE" /\ prev.outcome = "DONE" /\ ~srcChanged
    /\ last_watermark = prev.wm
    /\ Len(loads) >= 2
    /\ BagCardinality(sink) > Cardinality(BagToSet(sink))

\* C11: once a run has called save_current_watermark, whatever became of the
\* call, load_last_watermark returns what it returned at the start of the run
\* or the value the run saved.
C11_SaveIsCrashAtomic ==
    wmWrites > 0 =>
        LoadLastWatermark(wmFile) \in
            {LoadLastWatermark(startFile), Str(current_watermark)}

\* C12: a run that found a checkpoint file holding no watermark has loaded
\* None and has not failed in load_last_watermark.
C12_LoadNeverFails ==
    (pc # "IDLE" /\ startFile.k # "str") =>
        /\ last_watermark = None
        /\ error # "AttributeError"
        /\ (Ended /\ error \notin EnvErrors \cup {"ValueError"}) => pc = "DONE"

\* C13: when a run has ended, the PostgreSQL connection and the ClickHouse
\* client are closed.
C13_ResourcesReleased ==
    Ended => (~pgOpen /\ ~chOpen)

\* C14: a run over a source without rows that found no checkpoint file
\* completes, unless a connection fails, and at no point has it written to
\* the sink or created the checkpoint file.
C14_EmptySourceNoCheckpoint ==
    (pc # "IDLE" /\ source = <<>> /\ startFile = Absent) =>
        /\ loads = <<>> /\ sink = startSink
        /\ wmWrites = 0 /\ wmFile = Absent
        /\ (Ended /\ error \notin EnvErrors) => pc = "DONE"

\* a completed run over the empty source without a checkpoint file
C14_Witness ==
    /\ pc = "DONE" /\ source = <<>> /\ startFile = Absent
    /\ sink = EmptyBag /\ wmFile = Absent

\* the rows of this run's result set the cursor has returned so far
Fetched == ResultSet \ remaining

\* C15 as stated: at every point of a run the candidate watermark is the
\* watermark loaded at the start or the updated_at of a row the sink has
\* accepted in this run.
C15_CandidateOnlyLoaded ==
    pc # "IDLE" =>
        \/ current_watermark = last_watermark
        \/ /\ current_watermark.k = "dt"
           /\ \E r \in Range(Delivered) : r.ts = current_watermark.v

\* C15 amended: at every point of a run the candidate watermark is the
\* watermark loaded at the start or the greatest updated_at of the rows
\* fetched so far in this run, whether the sink has accepted them or they
\* are still in the buffer (so it never moves back as rows are fetched).
C15_CandidateOfFetched ==
    pc # "IDLE" =>
        \/ current_watermark = last_watermark
        \/ current_watermark = Dt(SetMax({r.ts : r \in Fetched} \ {0}))

\* after a load the candidate has moved on to a row that is still in the
\* buffer
C15_Witness ==
    /\ pc = "STREAMING" /\ loads # <<>> /\ batch_buffer # <<>>
    /\ current_watermark.k = "dt"
    /\ \A r \in Range(Delivered) : r.ts < current_watermark.v

\* the rows fetch_postgres_data has yielded in this run, in the order of
\* their arrival: those loaded and those in the buffer (after the flush of
\* the remainder the buffer holds rows that are loaded)
Yielded ==
    IF pc \in {"FINALIZING", "DONE"} THEN Delivered ELSE Delivered \o batch_buffer

\* the rows the claim says are extracted when the file at the start of the
\* run is startFile
Tombstoned ==
    IF startFile.k = "str"
    THEN {r \in Range(source) : r.del /\ r.ts # 0 /\ r.ts > startFile.v}
    ELSE {r \in Range(source) : r.del}

\* C16: the rows yielded in a run are soft-deleted rows, newer than the
\* watermark when there is one, in ascending order of updated_at (rows with
\* NULL updated_at, which only a full load selects, come last), and when the
\* cursor is exhausted they are all of these rows.
C16_ExtractsTombstonedAscending ==
    pc # "IDLE" =>
        LET rows == Yielded
        IN /\ Range(rows) \subseteq Tombstoned
           /\ \A i, j \in DOMAIN rows :
                 (i < j /\ rows[j].ts # 0) =>
                     (rows[i].ts # 0 /\ rows[i].ts <= rows[j].ts)
           /\ pc \in {"FINALIZING", "DONE"} => Range(rows) = Tombstoned

\* an incremental run has fetched a row while the source holds a soft-deleted
\* row stamped with the watermark
C16_Witness ==
    /\ pc # "IDLE" /\ startFile.k = "str"
    /\ Yielded # <<>>
    /\ \E r \in Range(source) : r.del /\ r.ts = startFile.v

\* C17: the rows delivered in a run were delivered in non-decreasing order
\* of updated_at (among the rows that have one), each of them once and into
\* the sink; and when the run has passed the flush of the remainder, every
\* row it fetched has been delivered.
C17_LoadsInExtractionOrder ==
    pc # "IDLE" =>
        LET rows == Delivered
        IN /\ \A i, j \in DOMAIN rows :
                 (i < j /\ rows[i].ts # 0 /\ rows[j].ts # 0) =>
                     rows[i].ts <= rows[j].ts
           /\ \A i, j \in DOMAIN rows : i # j => rows[i] # rows[j]
           /\ sink = startSink (+) SeqToBag(rows)
           /\ pc \in {"FINALIZING", "DONE"} => Range(rows) = Fetched

\* a completed run of two loads, the second of which brought a later row
C17_Witness ==
    /\ pc = "DONE" /\ Len(loads) >= 2
    /\ \E r \in Range(loads[1]), q \in Range(loads[2]) : 0 < r.ts /\ r.ts < q.ts

C19_CleanRunCompletes ==
    (/\ Ended /\ error \notin EnvErrors
     /\ \A r \in ResultSet : r.ts # 0) => pc = "DONE"

\* C20: the sink is never handed an empty batch: no load of a run is empty,
\* a rejected load was a load of rows, and a run whose buffer is empty after
\* the loop leaves the sink as the full batches left it; adding no rows
\* leaves the sink as it is.
C20_EmptyBatchIsNoOp ==
    /\ \A i \in DOMAIN loads : loads[i] # <<>>
    /\ error = "InsertError" => batch_buffer # <<>>
    /\ sink = startSink (+) SeqToBag(Delivered)
    /\ InsertToClickhouse(sink, <<>>) = sink

\* a completed run whose rows filled one batch and left no remainder
C20_Witness ==
    /\ pc = "DONE" /\ batch_buffer = <<>>
    /\ Len(loads) = 1 /\ Len(loads[1]) = DEFAULT_BATCH_SIZE

====
